---- MODULE Spec2Model ----
(***************************************************************************)
(* Model of src/app.py, the rent-versus-interest projection script.        *)
(*                                                                         *)
(* The script is re-executed from its first line on every widget change.   *)
(* Its numbers are IEEE-754 binary64 values (Python float, numpy float64), *)
(* so the model carries them as binary64 values: a positive double is the  *)
(* record [m |-> mantissa, e |-> exponent] of value m * 2^e with           *)
(* 2^52 <= m < 2^53.  Mantissas do not fit the model checker's integers,   *)
(* so a natural number is a little-endian sequence of limbs in base 2^12   *)
(* without high zero limbs (<<>> is 0).                                    *)
(*                                                                         *)
(* The arithmetic is written as functions, F[x], and a value that is used  *)
(* more than once is a function's argument rather than a LET: an argument  *)
(* is evaluated once, before the function is applied, and a LET            *)
(* definition at every use.                                                *)
(***************************************************************************)
EXTENDS Integers, Sequences, FiniteSets

(***************************************************************************)
(* Natural numbers of arbitrary size.  Every function works on whole limb  *)
(* vectors: a sum or product is formed limb by limb and the carries are    *)
(* then propagated by repeated passes.                                     *)
(***************************************************************************)
LimbBits == 12

Base == 4096

\* limb vectors before and after the carries are propagated
Raw == Seq(Int)

Number == Seq(Nat)

\* a function on 1..n as a sequence of its values
Limbs(f) == f \o <<>>

Max(a, b) == IF a >= b THEN a ELSE b

Min(a, b) == IF a <= b THEN a ELSE b

Limb(a, i) == IF i >= 1 /\ i <= Len(a) THEN a[i] ELSE 0

\* the number of zero limbs at the top of c
TopZeros[c \in Raw] ==
    CHOOSE z \in 0..Len(c) :
        /\ z = Len(c) \/ c[Len(c) - z] # 0
        /\ \A j \in (Len(c) - z + 1)..Len(c) : c[j] = 0

\* the index of the highest non-zero limb, 0 for zero
TopIndex[c \in Raw] == Len(c) - TopZeros[c]

BNorm[c \in Raw] == SubSeq(c, 1, TopIndex[c])

\* limbs of any size (negative ones too, of a non-negative total) to limbs
\* in 0..Base-1
Carry[c \in Raw] ==
    IF \A k \in 1..Len(c) : c[k] >= 0 /\ c[k] < Base
    THEN BNorm[c]
    ELSE Carry[Limbs([k \in 1..(Len(c) + 1) |->
                  (IF k <= Len(c) THEN c[k] % Base ELSE 0)
                  + (IF k > 1 THEN c[k - 1] \div Base ELSE 0)])]

BFromInt[n \in Nat] == Carry[<<n>>]

BAdd[a \in Number, b \in Number] ==
    Carry[Limbs([k \in 1..Max(Len(a), Len(b)) |-> Limb(a, k) + Limb(b, k)])]

\* a - b for a >= b
BSub[a \in Number, b \in Number] ==
    Carry[Limbs([k \in 1..Len(a) |-> a[k] - Limb(b, k)])]

\* -1, 0 or 1 as a < b, a = b or a > b, for a and b of one length that
\* first differ at limb k (counted from the top; 0 when they are equal)
BCmpAt[a \in Number, b \in Number, k \in Nat] ==
    IF k = 0 THEN 0 ELSE IF a[k] < b[k] THEN -1 ELSE 1

BCmp[a \in Number, b \in Number] ==
    IF Len(a) < Len(b) THEN -1
    ELSE IF Len(a) > Len(b) THEN 1
    ELSE BCmpAt[a, b, TopIndex[Limbs([i \in 1..Len(a) |-> a[i] - b[i]])]]

BLe[a \in Number, b \in Number] == BCmp[a, b] <= 0

\* a * k for 0 <= k <= Base
BMulSmall[a \in Number, k \in Nat] ==
    Carry[Limbs([i \in 1..Len(a) |-> a[i] * k])]

\* a * Base^n
BShiftLimbs[a \in Number, n \in Nat] ==
    IF a = <<>> THEN <<>> ELSE [i \in 1..n |-> 0] \o a

\* a[i] * b[k - i + 1], a term of column k of a product, 0 above i = hi
Term(a, b, k, i, hi) == IF i <= hi THEN a[i] * b[k - i + 1] ELSE 0

\* the sum of a[i] * b[k - i + 1] over lo <= i <= hi, by halves down to
\* four terms
ColumnSum[a \in Number, b \in Number, k \in Nat, lo \in Nat, hi \in Nat] ==
    IF hi - lo < 4
    THEN Term(a, b, k, lo, hi) + Term(a, b, k, lo + 1, hi)
         + Term(a, b, k, lo + 2, hi) + Term(a, b, k, lo + 3, hi)
    ELSE ColumnSum[a, b, k, lo, (lo + hi) \div 2]
         + ColumnSum[a, b, k, ((lo + hi) \div 2) + 1, hi]

BMul[a \in Number, b \in Number] ==
    IF a = <<>> \/ b = <<>> THEN <<>>
    ELSE Carry[Limbs([k \in 1..(Len(a) + Len(b) - 1) |->
                  ColumnSum[a, b, k, Max(1, k - Len(b) + 1), Min(Len(a), k)]])]

BSquare[a \in Number] == BMul[a, a]

BPow[a \in Number, k \in Nat] ==
    IF k = 0 THEN <<1>>
    ELSE IF k % 2 = 0 THEN BSquare[BPow[a, k \div 2]]
    ELSE BMul[a, BPow[a, k - 1]]

\* the number of bits of n < Base
SmallBitLen(n) == Cardinality({k \in 0..(LimbBits - 1) : 2^k <= n})

BBitLen[a \in Number] ==
    IF a = <<>> THEN 0 ELSE (Len(a) - 1) * LimbBits + SmallBitLen(a[Len(a)])

\* a * 2^n
BShl[a \in Number, n \in Nat] ==
    BShiftLimbs[BMulSmall[a, 2^(n % LimbBits)], n \div LimbBits]

\* a with its k low limbs dropped, div p, for p * q = Base
BShrBy[a \in Number, k \in Nat, p \in Nat, q \in Nat] ==
    IF k >= Len(a) THEN <<>>
    ELSE BNorm[Limbs([i \in 1..(Len(a) - k) |->
                  (a[i + k] \div p) + (Limb(a, i + k + 1) % p) * q])]

\* a div 2^n
BShr[a \in Number, n \in Nat] ==
    BShrBy[a, n \div LimbBits, 2^(n % LimbBits),
           2^(LimbBits - (n % LimbBits))]

\* <<(<<d>>), r - d * b>> for the largest d with d * b <= r, given an
\* estimate est of d that is not too small and its product P = est * b
DigitFrom[r \in Number, b \in Number, est \in Nat, P \in Number] ==
    IF BLe[P, r] THEN << <<est>>, BSub[r, P] >>
    ELSE DigitFrom[r, b, est - 1, BSub[P, b]]

DigitNear[r \in Number, b \in Number, est \in Nat] ==
    DigitFrom[r, b, est, BMulSmall[b, est]]

\* one digit of a long division and the remainder it leaves, for
\* r < Base * b and b's top limb at least Base / 2 (the estimate from the
\* top limbs is then at most 2 too large)
QuotientDigit[r \in Number, b \in Number] ==
    DigitNear[r, b,
              Min(Base - 1,
                  (Limb(r, Len(b) + 1) * Base + Limb(r, Len(b)))
                      \div b[Len(b)])]

\* the quotient's digits q (not yet normalized) with the digit dr[1] put
\* under them, and the remainder dr[2]
BDivDigit[q \in Number, dr \in Seq(Number)] == <<dr[1] \o q, dr[2]>>

\* r * Base + limb
BringDown[limb \in Nat, r \in Number] ==
    IF limb = 0 /\ r = <<>> THEN <<>> ELSE <<limb>> \o r

\* long division of a by b over a's limbs hi down to lo, by halves; st is
\* the quotient and the remainder of the limbs above hi
BDivLoop[a \in Number, b \in Number, hi \in Nat, lo \in Nat, st \in Seq(Number)] ==
    IF hi < lo THEN st
    ELSE IF hi = lo
    THEN BDivDigit[st[1], QuotientDigit[BringDown[a[hi], st[2]], b]]
    ELSE BDivLoop[a, b, ((hi + lo + 1) \div 2) - 1, lo,
                  BDivLoop[a, b, hi, (hi + lo + 1) \div 2, st]]

BDivResult[st \in Seq(Number)] == <<BNorm[st[1]], st[2]>>

\* <<floor(a / b), a mod b>> for b > 0 whose top limb is at least Base / 2:
\* the limbs of a above the first quotient digit are the first remainder
BDivModNormal[a \in Number, b \in Number] ==
    IF Len(a) < Len(b) THEN <<(<<>>), a>>
    ELSE BDivResult[BDivLoop[a, b, Len(a) - Len(b) + 1, 1,
                             << <<>>, SubSeq(a, Len(a) - Len(b) + 2, Len(a)) >>]]

BScaleBack[qr \in Seq(Number), s \in Nat] == <<qr[1], BShr[qr[2], s]>>

BDivModScaled[a \in Number, b \in Number, s \in Nat] ==
    BScaleBack[BDivModNormal[BShl[a, s], BShl[b, s]], s]

\* <<floor(a / b), a mod b>> for b > 0: both are scaled so that b's top
\* limb is at least Base / 2, and the remainder is scaled back
BDivMod[a \in Number, b \in Number] ==
    BDivModScaled[a, b, LimbBits - SmallBitLen(b[Len(b)])]

BDiv[a \in Number, b \in Number] == BDivMod[a, b][1]

(***************************************************************************)
(* IEEE-754 binary64: zero and the positive normal values, round to        *)
(* nearest, ties to even.  Zero is [m |-> <<>>, e |-> 0].                  *)
(***************************************************************************)
Precision == 53

Double == [m : Number, e : Int]

\* -1, 0 or 1 as the d low bits of M are below, at or above one half of
\* 2^d: bit d - 1 is bit p of limb i, and the bits under it decide a tie
HalfCmpAt[M \in Number, i \in Nat, p \in Nat] ==
    IF (M[i] \div 2^p) % 2 = 0 THEN -1
    ELSE IF M[i] % 2^p # 0 \/ \E j \in 1..(i - 1) : M[j] # 0 THEN 1
    ELSE 0

HalfCmp[M \in Number, d \in Nat] ==
    HalfCmpAt[M, ((d - 1) \div LimbBits) + 1, (d - 1) % LimbBits]

\* q or q + 1 as the bits dropped under q compare with one half (c is -1,
\* 0 or 1), ties to even
RoundUp[q \in Number, c \in Int] ==
    IF c > 0 \/ (c = 0 /\ q[1] % 2 = 1) THEN BAdd[q, <<1>>] ELSE q

\* a mantissa of Precision or Precision + 1 bits as a double
Renormalize[q \in Number, E \in Int] ==
    IF BBitLen[q] > Precision
    THEN [m |-> BShr[q, 1], e |-> E + 1]
    ELSE [m |-> q, e |-> E]

\* M with its d low bits rounded away
RoundBits[M \in Number, E \in Int, d \in Nat] ==
    Renormalize[RoundUp[BShr[M, d], HalfCmp[M, d]], E + d]

RoundLen[M \in Number, E \in Int, n \in Nat] ==
    IF n = 0 THEN [m |-> <<>>, e |-> 0]
    ELSE IF n <= Precision
    THEN [m |-> BShl[M, Precision - n], e |-> E - (Precision - n)]
    ELSE RoundBits[M, E, n - Precision]

\* the double nearest to M * 2^E, for a natural number M
RoundToDouble[M \in Number, E \in Int] == RoundLen[M, E, BBitLen[M]]

\* q with a sticky limb under it: q * Base, plus 1 unless q is exact
WithSticky[q \in Number, exact \in BOOLEAN] ==
    <<IF exact THEN 0 ELSE 1>> \o q

\* a quotient and its remainder as the quotient with a sticky limb
Sticky[qr \in Seq(Number)] == WithSticky[qr[1], qr[2] = <<>>]

\* the double nearest to (num / den) * 2^E for num and den scaled by s and
\* t bits: den * 2^t has its top limb at least Base / 2
RoundQuotientScaled[num \in Number, den \in Number, E \in Int, s \in Nat, t \in Nat] ==
    RoundToDouble[Sticky[BDivModNormal[BShl[num, s + t], BShl[den, t]]],
                  E - s - LimbBits]

\* the double nearest to (num / den) * 2^E, for natural numbers num and
\* den > 0: a quotient of at least 55 bits with a sticky limb under it
RoundQuotient[num \in Number, den \in Number, E \in Int] ==
    RoundQuotientScaled[num, den, E,
                        Max(0, Precision + 2 + BBitLen[den] - BBitLen[num]),
                        LimbBits - SmallBitLen(den[Len(den)])]

\* int -> float64 (exact for the integers of this program)
IntToF[n \in Nat] == RoundToDouble[BFromInt[n], 0]

\* a decimal num / den, read as a double
DecToF[num \in Nat, den \in Nat] ==
    RoundQuotient[BFromInt[num], BFromInt[den], 0]

\* the mantissa of x counted in units of 2^e, for e <= x.e
Aligned[x \in Double, e \in Int] == BShl[x.m, x.e - e]

FMul[x \in Double, y \in Double] == RoundToDouble[BMul[x.m, y.m], x.e + y.e]

FAdd[x \in Double, y \in Double] ==
    RoundToDouble[BAdd[Aligned[x, Min(x.e, y.e)], Aligned[y, Min(x.e, y.e)]],
                  Min(x.e, y.e)]

\* x - y for x >= y
FSub[x \in Double, y \in Double] ==
    RoundToDouble[BSub[Aligned[x, Min(x.e, y.e)], Aligned[y, Min(x.e, y.e)]],
                  Min(x.e, y.e)]

FDiv[x \in Double, y \in Double] == RoundQuotient[x.m, y.m, x.e - y.e]

\* -1, 0 or 1 as x < y, x = y or x > y
FCmp[x \in Double, y \in Double] ==
    BCmp[Aligned[x, Min(x.e, y.e)], Aligned[y, Min(x.e, y.e)]]

FLe[x \in Double, y \in Double] == FCmp[x, y] <= 0

FLt[x \in Double, y \in Double] == FCmp[x, y] < 0

\* x ** (1/12) for 1 <= x < 4096: the root lies in [1, 2).  With
\* N = x * 2^(12 * 53), Newton's iteration on integers finds
\* y = floor(N^(1/12)) = floor(x^(1/12) * 2^53) from a start above the root;
\* the double nearest to the root is y rounded with a sticky bit.
NewtonStep[N \in Number, y \in Number] ==
    BDiv[BAdd[BMulSmall[y, 11], BDiv[N, BPow[y, 11]]], <<12>>]

\* the iteration from y, whose next value is t, down to its first value
\* that the step does not lower
Root12Newton[N \in Number, y \in Number, t \in Number] ==
    IF BCmp[t, y] < 0 THEN Root12Newton[N, t, NewtonStep[N, t]] ELSE y

Root12From[N \in Number, y \in Number] == Root12Newton[N, y, NewtonStep[N, y]]

\* a start above the root: (1 + t)^(1/12) <= 1 + t/12, so with
\* X = x * 2^53 the root times 2^53 is at most 2^53 + (X - 2^53) / 12
Root12Start[X \in Number] ==
    BAdd[BAdd[BShl[<<1>>, Precision], <<1>>],
         BDiv[BSub[X, BShl[<<1>>, Precision]], <<12>>]]

Root12Rounded[N \in Number, y \in Number] ==
    RoundToDouble[WithSticky[y, BPow[y, 12] = N], -(Precision + LimbBits)]

Root12Of[N \in Number, X \in Number] ==
    Root12Rounded[N, Root12From[N, Root12Start[X]]]

FRoot12[x \in Double] ==
    Root12Of[BShl[x.m, x.e + 12 * Precision], BShl[x.m, x.e + Precision]]

One == IntToF[1]

Zero == [m |-> <<>>, e |-> 0]

(***************************************************************************)
(* The script.  Python indexes from 0 and the sequences here from 1:       *)
(* month i of the script is entry i + 1.                                   *)
(***************************************************************************)
\* line 15
months == 24

\* lines 11-13: the sliders' minimum, maximum, default and step; the rent
\* increase slider is counted in hundredths (0.0 to 0.5, default 0.15, step
\* 0.01) and yields the double nearest to the decimal it shows
InvestmentMin == 1000000

InvestmentMax == 10000000

InvestmentDefault == 2500000

InvestmentStep == 250000

RentMin == 5000

RentMax == 50000

RentDefault == 20000

RentStep == 1000

IncreaseMin == 0

IncreaseMax == 50

IncreaseDefault == 15

IncreaseStep == 1

\* how many steps above its default the model moves a slider; the default
\* and the slider's two ends are always among the positions
InvestmentSteps == 2

RentSteps == 2

IncreaseSteps == 2

Positions(min, max, default, step, steps) ==
    {v \in {min, max} \cup {default + j * step : j \in 0..steps} :
        min <= v /\ v <= max}

InvestmentPositions ==
    Positions(InvestmentMin, InvestmentMax, InvestmentDefault, InvestmentStep,
              InvestmentSteps)

RentPositions == Positions(RentMin, RentMax, RentDefault, RentStep, RentSteps)

IncreasePositions ==
    Positions(IncreaseMin, IncreaseMax, IncreaseDefault, IncreaseStep,
              IncreaseSteps)

\* a faulty variant of Hundredths: the slider's number taken as whole units
HundredthsAsUnits(k) == IntToF[k]

Hundredths(k) == DecToF[k, 100]

\* lines 19-25: the fixed schedules, in hundredths and in tenths
AnnualRatePercent ==
    << 50, 50, 50, 50, 50, 50,  40, 40, 40, 40, 40, 40,
       30, 30, 30, 30, 30, 30,  25, 25, 25, 25, 25, 25 >>

DollarRateTenths ==
    << 390, 392, 395, 398, 401, 404,
       406, 410, 413, 416, 420, 424,
       428, 431, 435, 438, 441, 444,
       447, 450, 452, 455, 457, 460 >>

annual_rates ==
    Limbs([i \in 1..Len(AnnualRatePercent) |-> DecToF[AnnualRatePercent[i], 100]])

dollar_rates ==
    Limbs([i \in 1..Len(DollarRateTenths) |-> DecToF[DollarRateTenths[i], 10]])

\* a faulty variant of InitialCurrentRent: line 29 left out, so that
\* current_rent keeps the value of the previous run
CarriedCurrentRent(previous, rent) == previous

\* line 29: current_rent = monthly_rent; the value current_rent held after
\* the previous run is overwritten
InitialCurrentRent(previous, rent) == IntToF[rent]

\* a faulty variant of Escalate: 1 - rent_increase for 1 + rent_increase
EscalateDown(current, increase) == FMul[current, FSub[One, increase]]

\* line 32: current_rent *= (1 + rent_increase)
Escalate(current, increase) == FMul[current, FAdd[One, increase]]

\* line 33: rents.append(current_rent)
RentAppend(rents_so_far, current) ==
    [current_rent |-> current, rents |-> Append(rents_so_far, current)]

\* a faulty variant of LoopBody: the test i > 0 left out
LoopBodyFromZero(i, s, increase) ==
    RentAppend(s.rents,
               IF i % 6 = 0
               THEN Escalate(s.current_rent, increase) ELSE s.current_rent)

\* a faulty variant of LoopBody: an escalation every 12 months
LoopBodyYearly(i, s, increase) ==
    RentAppend(s.rents,
               IF i > 0 /\ i % 12 = 0
               THEN Escalate(s.current_rent, increase) ELSE s.current_rent)

\* lines 31-33: the loop's body in month i, on the variables s
LoopBody(i, s, increase) ==
    RentAppend(s.rents,
               IF i > 0 /\ i % 6 = 0
               THEN Escalate(s.current_rent, increase) ELSE s.current_rent)

LoopState == [current_rent : Double, rents : Seq(Double)]

\* line 30: the loop over the months lo, ..., hi - 1 of range(months),
\* composed by halves
RentLoop[lo \in Nat, hi \in Nat, s \in LoopState, increase \in Double] ==
    IF lo >= hi THEN s
    ELSE IF lo + 1 = hi THEN LoopBody(lo, s, increase)
    ELSE RentLoop[(lo + hi) \div 2, hi,
                  RentLoop[lo, (lo + hi) \div 2, s, increase], increase]

\* a faulty variant of RentSchedule: the loop over range(1, months)
RentScheduleFromOne(previous, rent, increase) ==
    RentLoop[1, months,
             [current_rent |-> InitialCurrentRent(previous, rent),
              rents |-> <<>>],
             increase]

\* lines 28-34
RentSchedule(previous, rent, increase) ==
    RentLoop[0, months,
             [current_rent |-> InitialCurrentRent(previous, rent),
              rents |-> <<>>],
             increase]

\* a faulty variant of MonthlyRate: a twelfth of the annual rate
MonthlyRateSimple(a) == FDiv[a, IntToF[12]]

\* line 37: monthly_rates = (1 + annual_rates)**(1/12) - 1
MonthlyRate(a) == FSub[FRoot12[FAdd[One, a]], One]

monthly_rates ==
    Limbs([i \in 1..Len(annual_rates) |-> MonthlyRate(annual_rates[i])])

\* line 38: interest_income = initial_investment * monthly_rates
TimesRates[principal \in Double] ==
    Limbs([i \in 1..Len(monthly_rates) |-> FMul[principal, monthly_rates[i]]])

InterestIncome(investment) == TimesRates[IntToF[investment]]

\* a faulty variant of ToDollars: every entry at the first month's rate
ToDollarsFirstRate(series) ==
    Limbs([i \in 1..Len(series) |-> FDiv[series[i], dollar_rates[1]]])

\* lines 41-42: series / dollar_rates, entry by entry
ToDollars(series) ==
    Limbs([i \in 1..Len(series) |-> FDiv[series[i], dollar_rates[i]]])

VARIABLES
    initial_investment,   \* line 11
    monthly_rent,         \* line 12
    rent_increase,        \* line 13
    current_rent,         \* lines 29-32
    rents,                \* lines 28-34
    interest_income,      \* line 38
    rents_usd,            \* line 41
    interest_usd          \* line 42

vars == <<initial_investment, monthly_rent, rent_increase, current_rent,
          rents, interest_income, rents_usd, interest_usd>>

\* the values the script leaves in its variables, as a record
Results(schedule, income) ==
    [current_rent    |-> schedule.current_rent,
     rents           |-> schedule.rents,
     interest_income |-> income,
     rents_usd       |-> ToDollars(schedule.rents),
     interest_usd    |-> ToDollars(income)]

\* lines 27-42 on the sliders' values; previous is what current_rent held
Script(previous, investment, rent, increase) ==
    Results(RentSchedule(previous, rent, increase),
            InterestIncome(investment))

Store(out) ==
    /\ current_rent' = out.current_rent
    /\ rents' = out.rents
    /\ interest_income' = out.interest_income
    /\ rents_usd' = out.rents_usd
    /\ interest_usd' = out.interest_usd

\* one execution of the script, top to bottom
Run(investment, rent, increase) ==
    /\ initial_investment' = investment
    /\ monthly_rent' = rent
    /\ rent_increase' = increase
    /\ Store(Script(current_rent, investment, rent, increase))

InitFrom(out) ==
    /\ initial_investment = InvestmentDefault
    /\ monthly_rent = RentDefault
    /\ rent_increase = Hundredths(IncreaseDefault)
    /\ current_rent = out.current_rent
    /\ rents = out.rents
    /\ interest_income = out.interest_income
    /\ rents_usd = out.rents_usd
    /\ interest_usd = out.interest_usd

\* the first execution: every slider at its default
Init ==
    InitFrom(Script(IntToF[RentDefault], InvestmentDefault, RentDefault,
                    Hundredths(IncreaseDefault)))

\* a widget change re-executes the script with the widget's new value
MoveInvestment ==
    \E v \in InvestmentPositions :
        v # initial_investment /\ Run(v, monthly_rent, rent_increase)

MoveRent ==
    \E v \in RentPositions :
        v # monthly_rent /\ Run(initial_investment, v, rent_increase)

MoveIncrease ==
    \E k \in IncreasePositions :
        /\ Hundredths(k) # rent_increase
        /\ Run(initial_investment, monthly_rent, Hundredths(k))

\* a rerun without a change of input
Rerun == Run(initial_investment, monthly_rent, rent_increase)

Next == MoveInvestment \/ MoveRent \/ MoveIncrease \/ Rerun

Spec == Init /\ [][Next]_vars

(***************************************************************************)
(* Exact arithmetic for the properties below.  A record [m, e] with any    *)
(* natural number m stands for the real number m * 2^e; sums, products     *)
(* and powers of such numbers are formed without rounding.                 *)
(***************************************************************************)
ExactInt[n \in Nat] == [m |-> BFromInt[n], e |-> 0]

ExactAdd[x \in Double, y \in Double] ==
    [m |-> BAdd[Aligned[x, Min(x.e, y.e)], Aligned[y, Min(x.e, y.e)]],
     e |-> Min(x.e, y.e)]

\* x - y for x >= y
ExactSub[x \in Double, y \in Double] ==
    [m |-> BSub[Aligned[x, Min(x.e, y.e)], Aligned[y, Min(x.e, y.e)]],
     e |-> Min(x.e, y.e)]

ExactMul[x \in Double, y \in Double] == [m |-> BMul[x.m, y.m], e |-> x.e + y.e]

ExactPow[x \in Double, n \in Nat] == [m |-> BPow[x.m, n], e |-> n * x.e]

\* the relative tolerance of the comparisons is 1 / PerUnit, which is 1e-9
PerUnit == 10^9

\* |x - r| <= r / PerUnit
WithinTolerance[x \in Double, r \in Double] ==
    IF FLe[r, x]
    THEN FLe[ExactMul[ExactSub[x, r], ExactInt[PerUnit]], r]
    ELSE FLe[ExactMul[ExactSub[r, x], ExactInt[PerUnit]], r]

\* x multiplied by f, n times over, each product rounded to a double
Compound[x \in Double, f \in Double, n \in Nat] ==
    IF n = 0 THEN x ELSE FMul[Compound[x, f, n - 1], f]

\* entry k of a series belongs to month k - 1
MonthOf(k) == k - 1

RentMonotone ==
    /\ \A k \in 2..Len(rents) : FLe[rents[k - 1], rents[k]]
    /\ FLt[Zero, rent_increase] =>
          \A k \in 2..Len(rents) :
              IF MonthOf(k) % 6 = 0
              THEN FLt[rents[k - 1], rents[k]]
              ELSE rents[k] = rents[k - 1]
    /\ rent_increase = Zero =>
          \A k \in 1..Len(rents) : rents[k] = IntToF[monthly_rent]

\* a run with a positive increase whose rent has risen three times
RentMonotoneWitness ==
    /\ FLt[Zero, rent_increase]
    /\ FLt[rents[6], rents[7]]
    /\ FLt[rents[12], rents[13]]
    /\ FLt[rents[18], rents[19]]
    /\ monthly_rent = RentMax

\* C5.  The four derived series have the length of the horizon: rents,
\* interest_income, rents_usd and interest_usd each have months = 24
\* entries, as annual_rates and dollar_rates have.
SeriesLengths ==
    /\ months = 24
    /\ Len(annual_rates) = months
    /\ Len(dollar_rates) = months
    /\ Len(rents) = months
    /\ Len(interest_income) = months
    /\ Len(rents_usd) = months
    /\ Len(interest_usd) = months

\* a run after the investment and the rent were moved to their ends
SeriesLengthsWitness ==
    /\ initial_investment = InvestmentMin
    /\ monthly_rent = RentMin
    /\ Len(rents) = months
    /\ Len(interest_usd) = months

\* C6.  The conversion divides entry by entry by the dollar rate of the
\* same month: rents_usd[i] is the binary64 quotient rents[i] /
\* dollar_rates[i] and interest_usd[i] is interest_income[i] /
\* dollar_rates[i], that is a double nearest to the exact quotient; no
\* entry is divided by the rate of another month.
NearestQuotient[q \in Double, x \in Double, y \in Double] ==
    /\ FLe[ExactMul[[m |-> BSub[BMulSmall[q.m, 2], <<1>>], e |-> q.e - 1], y],
           x]
    /\ FLe[x,
           ExactMul[[m |-> BAdd[BMulSmall[q.m, 2], <<1>>], e |-> q.e - 1], y]]

DividedByRate(usd, series) ==
    /\ Len(usd) = Len(series)
    /\ \A k \in 1..Len(series) :
          /\ usd[k] = FDiv[series[k], dollar_rates[k]]
          /\ NearestQuotient[usd[k], series[k], dollar_rates[k]]

ElementwiseDivision ==
    /\ DividedByRate(rents_usd, rents)
    /\ DividedByRate(interest_usd, interest_income)

\* a run whose last rent is divided by the last month's rate, which is not
\* the first month's
ElementwiseDivisionWitness ==
    /\ monthly_rent = RentDefault + 2 * RentStep
    /\ rents_usd[months] = FDiv[rents[months], dollar_rates[months]]
    /\ rents_usd[months] # FDiv[rents[months], dollar_rates[1]]

\* C7.  The interest income of month i is principal * ((1 + annual_rates[i])
\* ^(1/12) - 1) within the relative tolerance 1e-9, from the principal of
\* the slider and that month's annual rate alone: the principal is the same
\* in every month, so two months with the same annual rate have the same
\* interest income, and the series has one entry per entry of annual_rates.
\* With x the income, P the principal and c = PerUnit, the tolerance says
\* (1 + x c / (P (c + 1)))^12 <= 1 + annual_rate <= (1 + x c / (P (c - 1)))^12.
RootBelow[x \in Double, P \in Double, a \in Double] ==
    FLe[ExactPow[ExactAdd[P, x], 12], ExactMul[ExactAdd[One, a], ExactPow[P, 12]]]

RootAbove[x \in Double, P \in Double, a \in Double] ==
    FLe[ExactMul[ExactAdd[One, a], ExactPow[P, 12]], ExactPow[ExactAdd[P, x], 12]]

InterestWithinTolerance[x \in Double, P \in Double, a \in Double] ==
    /\ RootBelow[ExactMul[x, ExactInt[PerUnit]],
                 ExactMul[P, ExactInt[PerUnit + 1]], a]
    /\ RootAbove[ExactMul[x, ExactInt[PerUnit]],
                 ExactMul[P, ExactInt[PerUnit - 1]], a]

\* the first month of each annual rate
FirstOfRate == {k \in 1..Len(annual_rates) :
                   \A j \in 1..(k - 1) : annual_rates[j] # annual_rates[k]}

InterestOfPrincipal ==
    /\ Len(interest_income) = Len(annual_rates)
    /\ \A k \in FirstOfRate :
          InterestWithinTolerance[interest_income[k],
                                  ExactInt[initial_investment],
                                  annual_rates[k]]
    /\ \A j, k \in 1..Len(annual_rates) :
          annual_rates[j] = annual_rates[k] =>
              interest_income[j] = interest_income[k]

\* a run on the largest principal: equal incomes within a rate's months and
\* a lower income once the rate has dropped
InterestOfPrincipalWitness ==
    /\ initial_investment = InvestmentMax
    /\ interest_income[1] = interest_income[6]
    /\ FLt[interest_income[7], interest_income[6]]

\* the run on an initial rent of 20000 and an increase of 0.15
ConcreteScenario ==
    monthly_rent = 20000 /\ rent_increase = Hundredths(15)

\* months 0-5, 6-11, 12-17 and 18-23 each hold one value, and the four
\* values differ: three escalations over the horizon
FourConstantBlocks ==
    /\ Len(rents) = 24
    /\ \A k \in 2..Len(rents) :
          (rents[k] = rents[k - 1]) <=> (MonthOf(k) % 6 # 0)

\* C8 as stated.  In the concrete scenario rent_series[0] == 20000,
\* rent_series[6] == 23000, rent_series[12] == 26450 and rent_series[18] ==
\* 30417.5, and months 0-5, 6-11, 12-17 and 18-23 each hold one constant
\* value.
ConcreteRentsExact ==
    ConcreteScenario =>
        /\ rents[1] = IntToF[20000]
        /\ rents[7] = IntToF[23000]
        /\ rents[13] = IntToF[26450]
        /\ rents[19] = DecToF[304175, 10]
        /\ FourConstantBlocks

\* C8 as amended.  In the concrete scenario rent_series[0] == 20000 and
\* rent_series[6] == 23000; rent_series[12] and rent_series[18] are the
\* binary64 products 20000 * 1.15 * 1.15 and 20000 * 1.15 * 1.15 * 1.15,
\* which are not 26450 and 30417.5 but lie within the relative tolerance
\* 1e-9 of them; months 0-5, 6-11, 12-17 and 18-23 each hold one constant
\* value.
ConcreteRentsRounded ==
    ConcreteScenario =>
        /\ rents[1] = IntToF[20000]
        /\ rents[7] = IntToF[23000]
        /\ rents[13] # IntToF[26450]
        /\ WithinTolerance[rents[13], IntToF[26450]]
        /\ rents[19] # DecToF[304175, 10]
        /\ WithinTolerance[rents[19], DecToF[304175, 10]]
        /\ FourConstantBlocks

\* the concrete scenario after its three escalations
ConcreteRentsWitness ==
    /\ ConcreteScenario
    /\ FLt[rents[1], rents[7]]
    /\ FLt[rents[7], rents[13]]
    /\ FLt[rents[13], rents[19]]
    /\ FLt[rents[19], IntToF[30418]]

\* C9.  After any sequence of slider changes, each of which runs the script
\* again, the script's variables hold what a first run on the sliders'
\* present values computes: equal inputs give equal results, and nothing of
\* an earlier run (such as a current_rent that was already escalated) enters
\* the next.
SameResult(out) ==
    /\ current_rent = out.current_rent
    /\ rents = out.rents
    /\ interest_income = out.interest_income
    /\ rents_usd = out.rents_usd
    /\ interest_usd = out.interest_usd

ResultOfLatestInput ==
    SameResult(Script(IntToF[monthly_rent], initial_investment, monthly_rent,
                      rent_increase))

\* a run after every slider was moved, whose predecessor left an escalated
\* current_rent behind
ResultOfLatestInputWitness ==
    /\ initial_investment = InvestmentMin
    /\ monthly_rent = RentMax
    /\ rent_increase = Hundredths(IncreaseMax)
    /\ FLt[IntToF[monthly_rent], current_rent]
    /\ rents[1] = IntToF[monthly_rent]

\* C10.  Every input the program can reach satisfies the preconditions of
\* the computation: initial_investment is in [1000000, 10000000], the
\* initial rent in [5000, 50000], rent_increase in [0, 0.5] and so within
\* [0, 1]; no entry of annual_rates is below -1 (none is below 0), every
\* entry of dollar_rates is above 0, and both have months = 24 entries.
InputsWithinPreconditions ==
    /\ initial_investment \in 1000000..10000000
    /\ monthly_rent \in 5000..50000
    /\ FLe[Zero, rent_increase]
    /\ FLe[rent_increase, DecToF[5, 10]]
    /\ FLe[rent_increase, One]
    /\ months = 24
    /\ Len(annual_rates) = months
    /\ Len(dollar_rates) = months
    /\ \A k \in 1..Len(annual_rates) : FLe[Zero, annual_rates[k]]
    /\ \A k \in 1..Len(dollar_rates) : FLt[Zero, dollar_rates[k]]

\* the sliders at the ends of their ranges
InputsWithinPreconditionsWitness ==
    /\ initial_investment = InvestmentMax
    /\ monthly_rent = RentMin
    /\ rent_increase = Hundredths(IncreaseMax)
====
